---- MODULE Spec2Model ----
(***************************************************************************)
(* Model of the regression-diff scanners (scripts/find_large_diffs.py,     *)
(* scripts/find_large_diffs_pre2025.py), of the curve normaliser and       *)
(* fixture writer (scripts/generate_fixtures.py) and of the per-date       *)
(* runner (scripts/run_all_dates.py).                                      *)
(*                                                                         *)
(* Numbers that the scripts hold as floats are fixed-point integers here,  *)
(* in hundredths of a basis point: 0.13bp is 13, the thresholds 0.1 and    *)
(* 1.0 are 10 and 100.                                                     *)
(***************************************************************************)
EXTENDS Integers, Sequences, FiniteSets, TLC

VARIABLES
    \* ---- parse_output applied to one report
    po_variant,     \* which script's parse_output: "y2025" or "pre2025"
    po_output,      \* the report text, a sequence of lines
    po_pc,          \* "ready", "returned" or "raised"
    po_issues,      \* the list parse_output returned
    \* ---- main() of the two scanners
    variant,        \* "y2025" (find_large_diffs.py) or "pre2025"
    dates,          \* the dates the store returned
    idx,            \* enumerate index i of the date in process (0 before the loop)
    pc,             \* position in main()
    all_issues,     \* main's all_issues
    dates_tested,   \* main's dates_tested (pre2025 only)
    dates_skipped,  \* main's dates_skipped (pre2025 only)
    by_date,        \* main's by_date dictionary
    date_sections,  \* the by_date keys in the order their sections are printed
    sorted_issues,  \* main's sorted_issues (worst offenders)
    summary,        \* the labelled numbers of the printed SUMMARY block
    printed,        \* the report sections printed so far
    visited,        \* history: the dates the loop body was entered for
    regen_failed,   \* history: the dates whose regenerate_fixtures returned False
    engine_calls,   \* history: the dates the pricing engine was invoked for
    engine_failed,  \* history: the dates whose invocation block failed
    engine_result,  \* history: what the engine gave for the date in process
    \* ---- get_curve_data applied to one stored curve
    gc_index,       \* the reference_index argument
    gc_pairs,       \* the tenor/rate pairs the stored payload encodes
    gc_meta,        \* whether the stored structure also carries metadata fields
    gc_done,        \* the payload shapes get_curve_data has been applied to
    gc_result,      \* per payload shape, what get_curve_data returned
    \* ---- get_curve_data applied to whatever the store holds
    nq_index,       \* the reference_index argument
    nq_fetched,     \* what the query gave: an error, no row, or a row's payload
    nq_pc,          \* "ready" or "returned"
    nq_result,      \* what get_curve_data returned
    \* ---- sort_tenors applied to one list
    st_tenors,      \* the argument
    st_pc,          \* "ready", "returned" or "raised"
    st_sorted,      \* the list sort_tenors returned
    \* ---- generate_fixture_for_source
    fx_source,      \* the source argument
    fx_currency,    \* the currency argument
    fx_ois_source,  \* the ois_source argument ("" is None)
    fx_ibor_source, \* the ibor_source argument ("" is None)
    fx_pc,          \* position in generate_fixture_for_source
    fx_quotes,      \* ois_quotes, ibor_3m_quotes, ibor_6m_quotes as far as fetched
    fx_store,       \* history: per curve looked up, what the store did
    fx_written,     \* the files written, each with its name and its blocks
    \* ---- main() of run_all_dates.py
    ra_total,       \* len(dates)
    ra_date,        \* enumerate index i of the date in process (0 before the loop)
    ra_result,      \* what subprocess.run of basis_swap.sh gave (none between dates)
    ra_k,           \* the number of lines of result.stdout the for loop has taken
    ra_in_results,  \* in_results
    ra_printed,     \* the lines print(line) has printed for this date
    ra_warned,      \* whether the exit code warning was printed for this date
    ra_pc           \* position in main()

po_vars == <<po_variant, po_output, po_pc, po_issues>>
scan_vars == <<variant, dates, idx, pc, all_issues, dates_tested, dates_skipped,
               by_date, date_sections, sorted_issues, summary, printed, visited,
               regen_failed, engine_calls, engine_failed, engine_result>>
gc_vars == <<gc_index, gc_pairs, gc_meta, gc_done, gc_result>>
nq_vars == <<nq_index, nq_fetched, nq_pc, nq_result>>
st_vars == <<st_tenors, st_pc, st_sorted>>
fx_vars == <<fx_source, fx_currency, fx_ois_source, fx_ibor_source, fx_pc, fx_quotes,
             fx_store, fx_written>>
gen_vars == <<nq_vars, st_vars, fx_vars>>
ra_vars == <<ra_total, ra_date, ra_result, ra_k, ra_in_results, ra_printed, ra_warned,
             ra_pc>>
vars == <<po_vars, scan_vars, gc_vars, gen_vars, ra_vars>>

\* F applied to the value of x, x being evaluated once
With(x, F(_)) == CHOOSE y \in {F(v) : v \in {x}} : TRUE

Abs(n) == IF n < 0 THEN -n ELSE n

Range(s) == {s[k] : k \in 1..Len(s)}

\* a Python dict is a function; {} is the function of empty domain
EmptyDict == [k \in {} |-> 0]

\* d[k] = v on a dictionary
DictSet(d, k, v) == [x \in DOMAIN d \cup {k} |-> IF x = k THEN v ELSE d[x]]

(***************************************************************************)
(* Report lines.  A line is the sequence of its whitespace-separated       *)
(* fields (what line.split() returns).  A field is                         *)
(*     pre ++ key ++ "=" ++ number ++ unit      when key # ""              *)
(*     pre                                      when key = ""              *)
(* e.g. [pre |-> "", key |-> "diff", num |-> 13, numeric |-> TRUE,         *)
(* unit |-> "bp"] is the field  diff=0.13bp,  and pre |-> "x" makes it     *)
(* xdiff=0.13bp.  numeric = FALSE is a field such as diff=N/Abp.           *)
(***************************************************************************)
Word(w) == [pre |-> w, key |-> "", num |-> 0, numeric |-> FALSE, unit |-> ""]
Labelled(p, k, n, u) == [pre |-> p, key |-> k, num |-> n, numeric |-> TRUE, unit |-> u]
NotANumber(k) == [pre |-> "", key |-> k, num |-> 0, numeric |-> FALSE, unit |-> "bp"]

\* 'label=' in line
Contains(line, label) == \E k \in 1..Len(line) : line[k].key = label

\* p.startswith('label=')
StartsWith(p, label) == p.pre = "" /\ p.key = label

\* [p for p in parts if p.startswith('label=')]
Labelled_parts(parts, label) == SelectSeq(parts, LAMBDA p : StartsWith(p, label))

\* float(s.replace('label=', '').replace('bp', '')) succeeds
FloatOk(p) == p.numeric /\ p.unit \in {"bp", ""}

\* its value
FloatOf(p) == p.num

Threshold2025 == 10
ThresholdPre2025 == 100

(***************************************************************************)
(* parse_output.  The result of one line is what the loop body does with   *)
(* it: "skip" (nothing appended), "issue" (one dict appended) or "raise"   *)
(* (IndexError / ValueError leaves parse_output).                          *)
(***************************************************************************)
LineStep2025(line) ==
    IF ~(Contains(line, "computed") /\ Contains(line, "diff"))
    THEN [kind |-> "skip"]
    ELSE IF Len(line) < 3                                  \* parts[1] / parts[2]
    THEN [kind |-> "raise"]
    ELSE IF Len(Labelled_parts(line, "diff")) = 0          \* [...][0]
    THEN [kind |-> "raise"]
    ELSE IF ~FloatOk(Labelled_parts(line, "diff")[1])      \* float(...)
    THEN [kind |-> "raise"]
    ELSE IF Abs(FloatOf(Labelled_parts(line, "diff")[1])) > Threshold2025
    THEN [kind |-> "issue",
          issue |-> [source |-> line[1], indices |-> line[2], tenor |-> line[3],
                     diff |-> FloatOf(Labelled_parts(line, "diff")[1]),
                     line |-> line]]
    ELSE [kind |-> "skip"]

LineStepPre2025(line) ==
    IF ~(Contains(line, "computed") /\ Contains(line, "diff"))
    THEN [kind |-> "skip"]
    ELSE IF Len(line) < 3                                  \* continue
    THEN [kind |-> "skip"]
    ELSE IF Len(Labelled_parts(line, "diff")) = 0
    THEN [kind |-> "raise"]
    ELSE IF ~FloatOk(Labelled_parts(line, "diff")[1])
    THEN [kind |-> "raise"]
    ELSE IF ~(Abs(FloatOf(Labelled_parts(line, "diff")[1])) > ThresholdPre2025)
    THEN [kind |-> "skip"]
    ELSE IF Len(Labelled_parts(line, "computed")) = 0
    THEN [kind |-> "raise"]
    ELSE IF ~FloatOk(Labelled_parts(line, "computed")[1])
    THEN [kind |-> "raise"]
    ELSE IF Len(Labelled_parts(line, "database")) = 0
    THEN [kind |-> "raise"]
    ELSE IF ~FloatOk(Labelled_parts(line, "database")[1])
    THEN [kind |-> "raise"]
    ELSE [kind |-> "issue",
          issue |-> [source |-> line[1], indices |-> line[2], tenor |-> line[3],
                     computed |-> FloatOf(Labelled_parts(line, "computed")[1]),
                     database |-> FloatOf(Labelled_parts(line, "database")[1]),
                     diff |-> FloatOf(Labelled_parts(line, "diff")[1]),
                     line |-> line]]

LineStep(v, line) == IF v = "y2025" THEN LineStep2025(line) ELSE LineStepPre2025(line)

\* the for loop of parse_output from line k on, issues being the list so far
RECURSIVE ParseFrom(_, _, _, _)
ParseFrom(v, lines, k, issues) ==
    IF k > Len(lines)
    THEN [raised |-> FALSE, issues |-> issues]
    ELSE With(LineStep(v, lines[k]), LAMBDA r :
            IF r.kind = "raise" THEN [raised |-> TRUE, issues |-> <<>>]
            ELSE IF r.kind = "issue"
            THEN ParseFrom(v, lines, k + 1, Append(issues, r.issue))
            ELSE ParseFrom(v, lines, k + 1, issues))

parse_output(v, output) == With(output, LAMBDA lines : ParseFrom(v, lines, 1, <<>>))

(***************************************************************************)
(* parse_output as a pure function: a report is drawn, the function of     *)
(* either script is applied to it.                                         *)
(***************************************************************************)
MaxReportLines == 2

Head3 == <<Word("BGN"), Word("EURIBOR3M/EURIBOR6M"), Word("10x10")>>

DiffValues == {-150, -13, 0, 10, 13, 100, 150}

DiffFields ==
    {<<>>, <<NotANumber("diff")>>, <<Labelled("x", "diff", 500, "bp")>>}
        \cup {<<Labelled("", "diff", n, "bp")>> : n \in DiffValues}

ReportLines ==
    {h \o c \o b \o d :
        h \in {Head3, <<>>},
        c \in {<<>>, <<Labelled("", "computed", 523, "bp")>>},
        b \in {<<>>, <<Labelled("", "database", 510, "bp")>>},
        d \in DiffFields}

SeqsUpTo(S, n) == UNION {[1..m -> S] : m \in 0..n}

Variants == {"y2025", "pre2025"}

ScanIdle ==
    /\ variant = "y2025" /\ dates = <<>> /\ idx = 0 /\ pc = "idle"
    /\ all_issues = <<>> /\ dates_tested = 0 /\ dates_skipped = 0
    /\ by_date = EmptyDict /\ date_sections = <<>> /\ sorted_issues = <<>>
    /\ summary = EmptyDict /\ printed = <<>> /\ visited = <<>>
    /\ regen_failed = {} /\ engine_calls = <<>> /\ engine_failed = {}
    /\ engine_result = [kind |-> "none", returncode |-> 0, stdout |-> <<>>]

ParseIdle ==
    /\ po_variant = "y2025" /\ po_output = <<>> /\ po_pc = "idle" /\ po_issues = <<>>

CurveIdle ==
    /\ gc_index = "" /\ gc_pairs = <<>> /\ gc_meta = FALSE /\ gc_done = {}
    /\ gc_result = EmptyDict

NormaliseIdle ==
    /\ nq_index = "" /\ nq_fetched = [kind |-> "norow"] /\ nq_pc = "idle"
    /\ nq_result = [none |-> TRUE, map |-> EmptyDict]

SortIdle ==
    /\ st_tenors = <<>> /\ st_pc = "idle" /\ st_sorted = <<>>

FixtureIdle ==
    /\ fx_source = "" /\ fx_currency = "" /\ fx_ois_source = "" /\ fx_ibor_source = ""
    /\ fx_pc = "idle" /\ fx_quotes = EmptyDict /\ fx_store = EmptyDict
    /\ fx_written = <<>>

GeneratorIdle == NormaliseIdle /\ SortIdle /\ FixtureIdle

ExtractIdle ==
    /\ ra_total = 0 /\ ra_date = 0 /\ ra_k = 0 /\ ra_in_results = FALSE
    /\ ra_result = [kind |-> "none", returncode |-> 0, stdout |-> <<>>]
    /\ ra_printed = <<>> /\ ra_warned = FALSE /\ ra_pc = "idle"

InitParse ==
    /\ po_variant \in Variants
    /\ po_output \in SeqsUpTo(ReportLines, MaxReportLines)
    /\ po_pc = "ready"
    /\ po_issues = <<>>
    /\ ScanIdle
    /\ CurveIdle
    /\ GeneratorIdle
    /\ ExtractIdle

ParseOutput ==
    /\ po_pc = "ready"
    /\ LET r == parse_output(po_variant, po_output)
       IN  /\ po_pc' = IF r.raised THEN "raised" ELSE "returned"
           /\ po_issues' = r.issues
    /\ UNCHANGED <<po_variant, po_output, scan_vars, gc_vars, gen_vars, ra_vars>>

NextParse == ParseOutput

SpecParse == InitParse /\ [][NextParse]_vars

Threshold(v) == IF v = "y2025" THEN Threshold2025 ELSE ThresholdPre2025

\* the line carries a computed= field and a diff= field whose value is a number
HasBothTokens(line) ==
    /\ Len(Labelled_parts(line, "computed")) > 0
    /\ Len(Labelled_parts(line, "diff")) > 0
    /\ FloatOk(Labelled_parts(line, "diff")[1])

DiffValueOf(line) == FloatOf(Labelled_parts(line, "diff")[1])

RecordedFor(line) ==
    \E n \in 1..Len(po_issues) :
        po_issues[n].line = line /\ po_issues[n].diff = DiffValueOf(line)

\* C1: once parse_output has run on a report, every line of it that holds a
\* computed= and a diff= token has a DiffIssue recorded if and only if the
\* absolute value of its diff exceeds the script's threshold.
C1_IssueIffAboveThreshold ==
    po_pc \in {"returned", "raised"} =>
        \A k \in 1..Len(po_output) :
            HasBothTokens(po_output[k]) =>
                (RecordedFor(po_output[k])
                    <=> Abs(DiffValueOf(po_output[k])) > Threshold(po_variant))

(***************************************************************************)
(* main() of the two scanners.                                             *)
(***************************************************************************)
MaxDates == 2

Date(y, m, d) == [y |-> y, m |-> m, d |-> d]

\* what get_2025_dates can return: ascending, distinct, within 2025
StoreDates2025 == <<Date(2025, 1, 2), Date(2025, 3, 14), Date(2025, 11, 25)>>

\* what get_pre2025_dates can return: descending, distinct, before 2025
StoreDatesPre2025 == <<Date(2024, 12, 31), Date(2024, 2, 29), Date(2019, 7, 1)>>

StoreDates(v) == IF v = "y2025" THEN StoreDates2025 ELSE StoreDatesPre2025

\* the elements of s at the positions in P, in the order of s
RECURSIVE Pick(_, _)
Pick(s, P) ==
    IF s = <<>> THEN <<>>
    ELSE LET rest == Pick(Tail(s), {k - 1 : k \in P \ {1}})
         IN  IF 1 \in P THEN <<Head(s)>> \o rest ELSE rest

DateLists(v) ==
    {Pick(StoreDates(v), P) :
        P \in {Q \in SUBSET (1..Len(StoreDates(v))) : Cardinality(Q) <= MaxDates}}

\* date.strftime("%Y%m%d"), the string as its sequence of digits
format_date_for_script(date) ==
    << date.y \div 1000, (date.y \div 100) % 10, (date.y \div 10) % 10, date.y % 10,
       date.m \div 10, date.m % 10, date.d \div 10, date.d % 10 >>

\* regenerate_fixtures: True only when the script ran and exited 0
RegenOutcomes == {"exit0", "exit1", "timeout", "oserror"}

\* the bug of returning True whenever the script ran, whatever its exit status
regenerate_fixtures_AnyExit(outcome) == outcome \in {"exit0", "exit1"}

regenerate_fixtures(outcome) == outcome = "exit0"

MaxStdoutLines == 2

StdoutLines ==
    { Head3 \o <<Labelled("", "computed", 523, "bp"), Labelled("", "database", 310, "bp"),
                 Labelled("", "diff", 213, "bp")>>,
      <<Word("LCH"), Word("EURIBOR3M/EURIBOR6M"), Word("5x5"),
        Labelled("", "computed", 100, "bp"), Labelled("", "database", 350, "bp"),
        Labelled("", "diff", -250, "bp")>>,
      Head3 \o <<Labelled("", "computed", 100, "bp"), Labelled("", "database", 100, "bp"),
                 Labelled("", "diff", 0, "bp")>>,
      Head3 \o <<Labelled("", "computed", 100, "bp"), NotANumber("diff")>> }

\* no invocation of the engine yet for the date in process
NoResult == [kind |-> "none", returncode |-> 0, stdout |-> <<>>]

\* what subprocess.run of the pricing engine can do
EngineResults ==
    {[kind |-> "timeout", returncode |-> 0, stdout |-> <<>>],
     [kind |-> "oserror", returncode |-> 0, stdout |-> <<>>],
     [kind |-> "exit", returncode |-> 1, stdout |-> <<>>]}
    \cup {[kind |-> "exit", returncode |-> 0, stdout |-> out] :
            out \in SeqsUpTo(StdoutLines, MaxStdoutLines)}

\* {'date': date, 'date_str': date_str, **issue}
Tagged(date, issue) ==
    [f \in {"date", "date_str"} \cup DOMAIN issue |->
        IF f = "date" THEN date
        ELSE IF f = "date_str" THEN format_date_for_script(date)
        ELSE issue[f]]

\* the bug of an append loop that stops before the last issue
TagAll_AllButLast(date, issues) ==
    With(issues, LAMBDA s : [k \in 1..(Len(s) - 1) |-> Tagged(date, s[k])])

\* for issue in issues: all_issues.append({...})
TagAll(date, issues) ==
    With(issues, LAMBDA s : [k \in 1..Len(s) |-> Tagged(date, s[k])])

\* the bug of a handler that lets the exception out of main()
AfterException_Reraise == "traceback"

\* what the handlers of the try block do after an exception: the loop goes on
AfterException == "loop"

(***************************************************************************)
(* The try block of the loop body for one engine result: how much each     *)
(* counter grows, the issues appended and where control goes.              *)
(***************************************************************************)
TryBlock2025(date, res) ==
    IF res.kind # "exit"
    THEN [tested |-> 0, skipped |-> 0, issues |-> <<>>, next |-> AfterException]
    ELSE IF res.returncode # 0
    THEN [tested |-> 0, skipped |-> 0, issues |-> <<>>, next |-> "loop"]
    ELSE LET r == parse_output("y2025", res.stdout)
         IN  IF r.raised
             THEN [tested |-> 0, skipped |-> 0, issues |-> <<>>, next |-> AfterException]
             ELSE [tested |-> 0, skipped |-> 0, issues |-> TagAll(date, r.issues),
                   next |-> "loop"]

TryBlockPre2025(date, res) ==
    IF res.kind # "exit"
    THEN [tested |-> 0, skipped |-> 1, issues |-> <<>>, next |-> AfterException]
    ELSE IF res.returncode # 0
    THEN [tested |-> 0, skipped |-> 1, issues |-> <<>>, next |-> "loop"]
    ELSE LET r == parse_output("pre2025", res.stdout)
         IN  IF r.raised
             THEN [tested |-> 1, skipped |-> 1, issues |-> <<>>, next |-> AfterException]
             ELSE [tested |-> 1, skipped |-> 0, issues |-> TagAll(date, r.issues),
                   next |-> "loop"]

\* the bug of no "except Exception" handler: only the timeout is caught
TryBlock_TimeoutOnly(v, date, res) ==
    With(IF v = "y2025" THEN TryBlock2025(date, res) ELSE TryBlockPre2025(date, res),
         LAMBDA e :
            IF \/ res.kind = "oserror"
               \/ (res.kind = "exit" /\ res.returncode = 0
                        /\ parse_output(v, res.stdout).raised)
            THEN [e EXCEPT !.next = "traceback"]
            ELSE e)

TryBlock(v, date, res) ==
    IF v = "y2025" THEN TryBlock2025(date, res) ELSE TryBlockPre2025(date, res)

\* the engine invocation block failed for this result
EngineFailure(v, res) ==
    \/ res.kind # "exit"
    \/ res.returncode # 0
    \/ parse_output(v, res.stdout).raised

InitScan ==
    /\ variant \in Variants
    /\ dates \in DateLists(variant)
    /\ idx = 0
    /\ pc = "start"
    /\ all_issues = <<>> /\ dates_tested = 0 /\ dates_skipped = 0
    /\ by_date = EmptyDict /\ date_sections = <<>> /\ sorted_issues = <<>>
    /\ summary = EmptyDict /\ printed = <<>> /\ visited = <<>>
    /\ regen_failed = {} /\ engine_calls = <<>> /\ engine_failed = {}
    /\ engine_result = NoResult
    /\ ParseIdle
    /\ CurveIdle
    /\ GeneratorIdle
    /\ ExtractIdle

\* if not dates: sys.exit(1)
NoDates ==
    /\ pc = "start"
    /\ dates = <<>>
    /\ pc' = "exit1"
    /\ printed' = Append(printed, "NO_DATES")
    /\ UNCHANGED <<variant, dates, engine_result, idx, all_issues, dates_tested,
                   dates_skipped, by_date,
                   date_sections, sorted_issues, summary, visited, regen_failed,
                   engine_calls, engine_failed, po_vars, gc_vars, gen_vars, ra_vars>>

\* the prints before the loop and the initialisation of the accumulators
EnterLoop ==
    /\ pc = "start"
    /\ dates # <<>>
    /\ pc' = "loop"
    /\ all_issues' = <<>>
    /\ dates_tested' = 0
    /\ dates_skipped' = 0
    /\ printed' = Append(printed, "FOUND_DATES")
    /\ UNCHANGED <<variant, dates, engine_result, idx, by_date, date_sections,
                   sorted_issues, summary,
                   visited, regen_failed, engine_calls, engine_failed, po_vars, gc_vars, gen_vars, ra_vars>>

\* for i, date in enumerate(dates, 1): the next date, or the end of the loop
NextDate ==
    /\ pc = "loop"
    /\ idx < Len(dates)
    /\ idx' = idx + 1
    /\ visited' = Append(visited, dates[idx + 1])
    /\ engine_result' = NoResult
    /\ pc' = IF variant = "pre2025" THEN "regen" ELSE "calc"
    /\ UNCHANGED <<variant, dates, all_issues, dates_tested, dates_skipped, by_date,
                   date_sections, sorted_issues, summary, printed, regen_failed,
                   engine_calls, engine_failed, po_vars, gc_vars, gen_vars, ra_vars>>

\* if not regenerate_fixtures(date_str): dates_skipped += 1; continue
Regenerate ==
    /\ pc = "regen"
    /\ \E outcome \in RegenOutcomes :
        /\ regen_failed' = IF outcome = "exit0" THEN regen_failed
                           ELSE regen_failed \cup {dates[idx]}
        /\ IF regenerate_fixtures(outcome)
           THEN pc' = "calc" /\ UNCHANGED dates_skipped
           ELSE pc' = "loop" /\ dates_skipped' = dates_skipped + 1
    /\ UNCHANGED <<variant, dates, engine_result, idx, all_issues, dates_tested,
                   by_date, date_sections,
                   sorted_issues, summary, printed, visited, engine_calls, engine_failed,
                   po_vars, gc_vars, gen_vars, ra_vars>>

\* the bug of an accumulation that keeps the issues of the last date only
Extend_Replace(issues, more) == more

\* all_issues.append(...) for each of the date's issues
Extend(issues, more) == issues \o more

\* the try block: subprocess.run of the engine, parse_output, accumulation
Calculate ==
    /\ pc = "calc"
    /\ \E res \in EngineResults :
        \E e \in {TryBlock(variant, dates[idx], res)} :
            /\ all_issues' = Extend(all_issues, e.issues)
            /\ dates_tested' = dates_tested + e.tested
            /\ dates_skipped' = dates_skipped + e.skipped
            /\ pc' = e.next
            /\ engine_failed' = IF EngineFailure(variant, res)
                                THEN engine_failed \cup {dates[idx]}
                                ELSE engine_failed
            /\ engine_result' = res
    /\ engine_calls' = Append(engine_calls, dates[idx])
    /\ UNCHANGED <<variant, dates, idx, by_date, date_sections, sorted_issues, summary,
                   printed, visited, regen_failed, po_vars, gc_vars, gen_vars, ra_vars>>

(***************************************************************************)
(* The report printed after the loop.                                      *)
(***************************************************************************)
TopN == 10

\* the bug of assigning the group instead of appending to it
GroupStep_Overwrite(d, issue) == DictSet(d, issue.date_str, <<issue>>)

\* if date_str not in by_date: by_date[date_str] = []
\* by_date[date_str].append(issue)
GroupStep(d, issue) ==
    With(IF issue.date_str \notin DOMAIN d THEN DictSet(d, issue.date_str, <<>>) ELSE d,
         LAMBDA d1 : [d1 EXCEPT ![issue.date_str] = Append(@, issue)])

\* for issue in all_issues: ... from position k on
RECURSIVE GroupFrom(_, _, _)
GroupFrom(issues, k, d) ==
    IF k > Len(issues) THEN d
    ELSE With(GroupStep(d, issues[k]), LAMBDA d1 : GroupFrom(issues, k + 1, d1))

GroupByDate(issues) == With(issues, LAMBDA all : GroupFrom(all, 1, EmptyDict))

\* a < b for two strings of digits (Python's string comparison), from position k
RECURSIVE LexLessFrom(_, _, _)
LexLessFrom(a, b, k) ==
    IF k > Len(b) THEN FALSE
    ELSE IF k > Len(a) THEN TRUE
    ELSE IF a[k] # b[k] THEN a[k] < b[k]
    ELSE LexLessFrom(a, b, k + 1)

LexLess(a, b) == LexLessFrom(a, b, 1)

\* sorted(keys) / sorted(keys, reverse=True) of distinct keys
RECURSIVE SortedKeys(_, _)
SortedKeys(K, reverse) ==
    IF K = {} THEN <<>>
    ELSE LET first == CHOOSE k \in K :
                        \A o \in K \ {k} :
                            IF reverse THEN LexLess(o, k) ELSE LexLess(k, o)
         IN  <<first>> \o SortedKeys(K \ {first}, reverse)

\* the bug of ranking by the signed diff
SortKey_Signed(issue) == issue.diff

\* key=lambda x: abs(x['diff'])
SortKey(issue) == Abs(issue.diff)

\* sorted(..., reverse=True) is stable: x goes behind every element whose key is
\* not smaller than its own; the first position from k on whose key is smaller
RECURSIVE InsertionPoint(_, _, _)
InsertionPoint(s, x, k) ==
    IF k > Len(s) THEN k
    ELSE IF SortKey(s[k]) < SortKey(x) THEN k
    ELSE InsertionPoint(s, x, k + 1)

InsertDescending(s, x) ==
    With(InsertionPoint(s, x, 1),
         LAMBDA p : SubSeq(s, 1, p - 1) \o <<x>> \o SubSeq(s, p, Len(s)))

RECURSIVE SortDescendingFrom(_, _, _)
SortDescendingFrom(issues, k, acc) ==
    IF k > Len(issues) THEN acc
    ELSE With(InsertDescending(acc, issues[k]),
              LAMBDA a : SortDescendingFrom(issues, k + 1, a))

\* sorted(all_issues, key=lambda x: abs(x['diff']), reverse=True)[:10]
WorstOffenders(issues) ==
    With(issues, LAMBDA all :
        With(SortDescendingFrom(all, 1, <<>>),
             LAMBDA s : SubSeq(s, 1, IF Len(s) < TopN THEN Len(s) ELSE TopN)))

\* the labelled numbers of the SUMMARY block
SummaryBlock ==
    IF variant = "y2025"
    THEN [cases |-> Len(all_issues)]
    ELSE [total |-> Len(dates), tested |-> dates_tested, skipped |-> dates_skipped,
          cases |-> Len(all_issues)]

\* everything main() does after the loop
PrintSummary ==
    /\ pc = "loop"
    /\ idx = Len(dates)
    /\ summary' = SummaryBlock
    /\ IF all_issues # <<>>
       THEN /\ \E g \in {GroupByDate(all_issues)} :
                /\ by_date' = g
                /\ date_sections' = SortedKeys(DOMAIN g, variant = "pre2025")
            /\ sorted_issues' = WorstOffenders(all_issues)
            /\ printed' = printed \o <<"SUMMARY", "BY_DATE", "WORST_OFFENDERS">>
       ELSE /\ printed' = printed \o <<"SUMMARY", "ALL_OK">>
            /\ UNCHANGED <<by_date, date_sections, sorted_issues>>
    /\ pc' = "done"
    /\ UNCHANGED <<variant, dates, engine_result, idx, all_issues, dates_tested,
                   dates_skipped, visited,
                   regen_failed, engine_calls, engine_failed, po_vars, gc_vars, gen_vars, ra_vars>>

NextScan == NoDates \/ EnterLoop \/ NextDate \/ Regenerate \/ Calculate \/ PrintSummary

SpecScan == InitScan /\ [][NextScan]_vars

\* one control thread runs main(); every blocking call it makes is bounded by a
\* timeout, so a step that can be taken is taken
FairScan == SpecScan /\ WF_vars(NextScan)

(***************************************************************************)
(* The report as a function of the accumulated issues: the state at the    *)
(* end of a loop over two dates that were both tested, the first with a    *)
(* report of at most MaxStdoutLines lines, the second with a long report.  *)
(***************************************************************************)
MaxIssues == 11

IssueLines ==
    { Head3 \o <<Labelled("", "computed", 523, "bp"), Labelled("", "database", 310, "bp"),
                 Labelled("", "diff", 213, "bp")>>,
      <<Word("LCH"), Word("EURIBOR3M/EURIBOR6M"), Word("5x5"),
        Labelled("", "computed", 100, "bp"), Labelled("", "database", 350, "bp"),
        Labelled("", "diff", -250, "bp")>> }

SummaryDates(v) == <<StoreDates(v)[1], StoreDates(v)[3]>>

InitSummary ==
    /\ variant \in Variants
    /\ dates = SummaryDates(variant)
    /\ idx = Len(dates)
    /\ pc = "loop"
    /\ \E n \in 0..MaxIssues : \E out \in [1..n -> IssueLines] :
       \E c \in 0..(IF n < MaxStdoutLines THEN n ELSE MaxStdoutLines) :
         all_issues =
            TagAll(dates[1], parse_output(variant, SubSeq(out, 1, c)).issues)
            \o TagAll(dates[2], parse_output(variant, SubSeq(out, c + 1, n)).issues)
    /\ dates_tested = IF variant = "pre2025" THEN Len(dates) ELSE 0
    /\ dates_skipped = 0
    /\ by_date = EmptyDict /\ date_sections = <<>> /\ sorted_issues = <<>>
    /\ summary = EmptyDict /\ printed = <<"FOUND_DATES">> /\ visited = dates
    /\ regen_failed = {} /\ engine_calls = dates /\ engine_failed = {}
    /\ engine_result = NoResult
    /\ ParseIdle
    /\ CurveIdle
    /\ GeneratorIdle
    /\ ExtractIdle

NextSummary == PrintSummary

SpecSummary == InitSummary /\ [][NextSummary]_vars

(***************************************************************************)
(* Properties of the scan loop.                                            *)
(***************************************************************************)
SummaryPrinted == "SUMMARY" \in Range(printed)

\* main() is at none of the positions it goes on from
Stopped == pc \notin {"start", "loop", "regen", "calc"}

\* C2: at the end of the pre-2025 scan, dates_tested + dates_skipped is the
\* number of dates.
C2_TestedPlusSkippedIsTotal ==
    (variant = "pre2025" /\ pc = "done") =>
        dates_tested + dates_skipped = Len(dates)

\* C3: no failure of a date aborts the scan: the loop body is entered for the
\* dates in sequence order, each once, the engine is invoked at most once per
\* date and in that order, and main() only stops with every date visited.
C3_EveryDateProcessedOnce ==
    /\ visited = SubSeq(dates, 1, idx)
    /\ pc \in {"loop", "done"} =>
         engine_calls = SelectSeq(visited, LAMBDA d : d \notin regen_failed)
    /\ (Stopped /\ dates # <<>>) => (pc = "done" /\ visited = dates)

C3_Witness ==
    /\ pc = "done"
    /\ Len(dates) >= 2
    /\ dates[1] \in engine_failed
    /\ visited = dates
    /\ engine_calls = dates

\* C4: a date whose fixture regeneration failed is counted as skipped, the
\* engine is not invoked for it, no issue carries it, and the loop goes on.
C4_RegenFailureSkipsDate ==
    variant = "pre2025" =>
        /\ \A d \in regen_failed :
              /\ d \notin Range(engine_calls)
              /\ \A k \in 1..Len(all_issues) : all_issues[k].date # d
        /\ pc \in {"loop", "done"} =>
              dates_skipped = Cardinality(regen_failed) + Cardinality(engine_failed)
        /\ pc = "done" => visited = dates

C4_Witness ==
    /\ variant = "pre2025"
    /\ pc = "done"
    /\ Len(dates) >= 2
    /\ dates[1] \in regen_failed
    /\ dates[2] \in Range(engine_calls)
    /\ all_issues # <<>>
    /\ dates_skipped = 1

\* C5: in the 2025 scanner the summary reports how many dates were skipped (every
\* date whose invocation timed out, exited non-zero or raised) and how many were
\* tested.
C5_SkippedAndTestedReported ==
    (variant = "y2025" /\ pc = "done") =>
        /\ {"skipped", "tested"} \subseteq DOMAIN summary
        /\ summary.skipped = Cardinality(engine_failed)
        /\ summary.tested = Len(dates) - Cardinality(engine_failed)

\* C6 as stated: whatever dates the store returned, the run gets to print its
\* SUMMARY block.
C6_AlwaysSummary == <>SummaryPrinted

\* C6: whenever the store returned at least one date, the loop ends and the
\* SUMMARY block is printed, whatever the outcomes of the dates.
C6_SummaryUnlessNoDates ==
    (pc = "start" /\ dates # <<>>) ~> (pc = "done" /\ SummaryPrinted)

C6_Witness ==
    /\ pc = "done"
    /\ SummaryPrinted
    /\ Len(dates) >= 2
    /\ \A d \in Range(dates) : d \in regen_failed \cup engine_failed
    /\ all_issues = <<>>

(***************************************************************************)
(* Properties of the report.                                               *)
(***************************************************************************)
\* the place of all_issues[k] in the ranking: behind every issue of larger
\* absolute diff and every earlier issue of the same absolute diff
Rank(k) ==
    1 + Cardinality({j \in 1..Len(all_issues) :
            \/ Abs(all_issues[j].diff) > Abs(all_issues[k].diff)
            \/ (Abs(all_issues[j].diff) = Abs(all_issues[k].diff) /\ j < k)})

\* C7: the worst-offenders list has at most 10 entries, is non-increasing in
\* abs(diff), holds the issues of largest abs(diff), and lists issues of equal
\* abs(diff) in the order they were accumulated.
C7_WorstOffendersRanking ==
    (pc = "done" /\ all_issues # <<>>) =>
        /\ Len(sorted_issues) <= TopN
        /\ Len(sorted_issues) = IF Len(all_issues) < TopN THEN Len(all_issues) ELSE TopN
        /\ \A j \in 1..(Len(sorted_issues) - 1) :
              Abs(sorted_issues[j].diff) >= Abs(sorted_issues[j + 1].diff)
        /\ \A k \in 1..Len(all_issues) :
              IF Rank(k) <= TopN
              THEN sorted_issues[Rank(k)] = all_issues[k]
              ELSE \A j \in 1..Len(sorted_issues) :
                      Abs(all_issues[k].diff) <= Abs(sorted_issues[j].diff)

C7_Witness ==
    /\ pc = "done"
    /\ Len(all_issues) > TopN
    /\ Len(sorted_issues) = TopN
    /\ \E j \in 1..(TopN - 1) :
          /\ Abs(sorted_issues[j].diff) = Abs(sorted_issues[j + 1].diff)
          /\ sorted_issues[j] # sorted_issues[j + 1]
    /\ Abs(sorted_issues[1].diff) > Abs(sorted_issues[TopN].diff)
    /\ \E k \in 1..Len(all_issues) :
          Rank(k) > TopN /\ Abs(all_issues[k].diff) = Abs(sorted_issues[TopN].diff)

\* C8: the by-date grouping partitions the accumulated issues: the groups are
\* those of the dates that have issues, each group is exactly the issues of its
\* date, as many and in the same relative order, and each group is printed once.
C8_ByDateIsPartition ==
    (pc = "done" /\ all_issues # <<>>) =>
        /\ DOMAIN by_date = {all_issues[k].date_str : k \in 1..Len(all_issues)}
        /\ \A key \in DOMAIN by_date :
              by_date[key] = SelectSeq(all_issues, LAMBDA i : i.date_str = key)
        /\ Len(date_sections) = Cardinality(DOMAIN by_date)
        /\ Range(date_sections) = DOMAIN by_date

C8_Witness ==
    /\ pc = "done"
    /\ Cardinality(DOMAIN by_date) = 2
    /\ \A key \in DOMAIN by_date : Len(by_date[key]) >= 2
    /\ \E key \in DOMAIN by_date :
          /\ by_date[key][1] = by_date[key][2]
          /\ \E j \in 1..Len(by_date[key]) : by_date[key][j] # by_date[key][1]

(***************************************************************************)
(* get_curve_data (generate_fixtures.py).                                  *)
(*                                                                         *)
(* A stored JSON value is a record tagged by its type.  Rates are          *)
(* fixed-point integers in 1/10000: 1.8916 is 18916.                       *)
(***************************************************************************)
JNull == [t |-> "null"]
JNum(n) == [t |-> "num", n |-> n]
JStr(x) == [t |-> "str", s |-> x]
JBool(b) == [t |-> "bool", b |-> b]
JList(items) == [t |-> "list", items |-> items]
JDict(fields) == [t |-> "dict", fields |-> fields]

\* bool(value) in Python
Truthy(v) ==
    IF v.t = "null" THEN FALSE
    ELSE IF v.t = "num" THEN v.n # 0
    ELSE IF v.t = "bool" THEN v.b
    ELSE IF v.t = "str" THEN v.s # ""
    ELSE IF v.t = "list" THEN v.items # <<>>
    ELSE DOMAIN v.fields # {}

\* the bug of a direct shape that takes any value for a rate
IsNumber_Any(v) == TRUE

\* isinstance(v, (int, float)): Python's bool is a subclass of int
IsNumber(v) == v.t \in {"num", "bool"}

\* hash(v) succeeds: a list or a dict cannot be a dictionary key
Hashable(v) == v.t \notin {"list", "dict"}

ALLOWED_TENORS ==
    "ESTR" :>
        <<"1W", "2W", "1M", "2M", "3M", "4M", "5M", "6M", "7M", "8M", "9M", "10M",
          "11M", "1Y", "18M", "2Y", "3Y", "4Y", "5Y", "6Y", "7Y", "8Y", "9Y",
          "10Y", "11Y", "12Y", "15Y", "20Y", "25Y", "30Y", "40Y", "50Y">>
    @@ "EURIBOR3M" :>
        <<"3M", "1Y", "2Y", "3Y", "4Y", "5Y", "6Y", "7Y", "8Y", "9Y", "10Y", "11Y",
          "12Y", "15Y", "20Y", "25Y", "30Y", "40Y", "50Y">>
    @@ "EURIBOR6M" :>
        <<"6M", "1Y", "18M", "2Y", "3Y", "4Y", "5Y", "6Y", "7Y", "8Y", "9Y", "10Y",
          "11Y", "12Y", "15Y", "20Y", "25Y", "30Y", "40Y", "50Y">>
    @@ "TONAR" :>
        <<"1W", "2W", "1M", "2M", "3M", "4M", "5M", "6M", "7M", "8M", "9M", "10M",
          "11M", "1Y", "15M", "18M", "21M", "2Y", "3Y", "4Y", "5Y", "6Y", "7Y",
          "8Y", "9Y", "10Y", "11Y", "12Y", "15Y", "20Y", "25Y", "30Y", "35Y",
          "40Y">>
    @@ "TIBOR3M" :>
        <<"3M", "1Y", "18M", "2Y", "3Y", "4Y", "5Y", "6Y", "7Y", "8Y", "9Y", "10Y",
          "12Y", "15Y", "20Y", "25Y", "30Y", "40Y">>
    @@ "TIBOR6M" :>
        <<"6M", "1Y", "18M", "2Y", "3Y", "4Y", "5Y", "6Y", "7Y", "8Y", "9Y", "10Y",
          "12Y", "15Y", "20Y", "25Y", "30Y", "35Y", "40Y">>

\* the bug of a direct shape that takes every key for a tenor
MetadataKeys_None == {}

\* the keys the direct shape does not take for tenors
MetadataKeys == {"source", "curve_date", "curve_type", "reference_index"}

\* what get_curve_data returns: None, or a dict of tenor -> rate
None == [none |-> TRUE, map |-> EmptyDict]
Some(m) == [none |-> FALSE, map |-> m]

\* isinstance(item, dict) and "tenor" in item and "rate" in item
IsQuote(item) ==
    item.t = "dict" /\ "tenor" \in DOMAIN item.fields /\ "rate" \in DOMAIN item.fields

\* quotes_dict[item["tenor"]] raises TypeError: the tenor is unhashable
QuoteRaises(item) == IsQuote(item) /\ ~Hashable(item.fields["tenor"])

\* if isinstance(item, dict) and "tenor" in item and "rate" in item:
\*     quotes_dict[item["tenor"]] = item["rate"]
QuoteStep(quotes_dict, item) ==
    IF IsQuote(item)
    THEN DictSet(quotes_dict, item.fields["tenor"].s, item.fields["rate"])
    ELSE quotes_dict

\* what the normalisation of a payload comes to: a dictionary, or an exception
Built(m) == [raised |-> FALSE, map |-> m]
Raised == [raised |-> TRUE, map |-> EmptyDict]

\* for item in items: ... from position k on
RECURSIVE QuotesFrom(_, _, _)
QuotesFrom(items, k, quotes_dict) ==
    IF k > Len(items) THEN Built(quotes_dict)
    ELSE IF QuoteRaises(items[k]) THEN Raised
    ELSE With(QuoteStep(quotes_dict, items[k]),
              LAMBDA q : QuotesFrom(items, k + 1, q))

\* the three formats of the stored quotes, in the order the code tries them
QuotesOf(data) ==
    IF data.t = "list"
    THEN QuotesFrom(data.items, 1, EmptyDict)
    ELSE IF data.t = "dict"
    THEN IF "quotes" \in DOMAIN data.fields /\ data.fields["quotes"].t = "list"
         THEN QuotesFrom(data.fields["quotes"].items, 1, EmptyDict)
         ELSE IF \A k \in DOMAIN data.fields \ MetadataKeys : IsNumber(data.fields[k])
         THEN Built([k \in DOMAIN data.fields \ MetadataKeys |-> data.fields[k]])
         ELSE Built(EmptyDict)
    ELSE Built(EmptyDict)

\* the bug of a filter that keeps every tenor
FilterAllowed_Identity(reference_index, quotes_dict) == quotes_dict

\* if reference_index in ALLOWED_TENORS: keep the allowed tenors only
FilterAllowed(reference_index, quotes_dict) ==
    IF reference_index \in DOMAIN ALLOWED_TENORS
    THEN [k \in DOMAIN quotes_dict \cap Range(ALLOWED_TENORS[reference_index]) |->
            quotes_dict[k]]
    ELSE quotes_dict

\* fetched is what the query gave: [kind |-> "error"] (connect or execute raised),
\* [kind |-> "norow"] (fetchone() is None) or [kind |-> "row", payload |-> result[0]]
get_curve_data(reference_index, fetched) ==
    IF fetched.kind = "error" THEN None
    ELSE IF fetched.kind = "norow" THEN None
    ELSE IF ~Truthy(fetched.payload) THEN None
    ELSE With(QuotesOf(fetched.payload), LAMBDA q :
            IF q.raised THEN None                          \* except Exception
            ELSE Some(FilterAllowed(reference_index, q.map)))

(***************************************************************************)
(* One curve stored in each of the three formats.                          *)
(***************************************************************************)
MaxQuotes == 2

Shapes == {"sequence", "nested", "direct"}

Tenors == {"1Y", "2Y", "6M", "13M"}

Rates == {JNum(18916), JNum(25000), JNull}

Indices == {"ESTR", "EURIBOR3M", "SOFR"}

\* tenor/rate pairs of distinct tenors
PairLists ==
    {p \in SeqsUpTo([tenor : Tenors, rate : Rates], MaxQuotes) :
        \A j, k \in 1..Len(p) : j # k => p[j].tenor # p[k].tenor}

Metadata == [source |-> JStr("BGN"), curve_type |-> JStr("OIS")]

\* [{"tenor": ..., "rate": ..., "ticker": ...}, ...]
Records(pairs) ==
    [k \in 1..Len(pairs) |->
        JDict([tenor |-> JStr(pairs[k].tenor), rate |-> pairs[k].rate,
               ticker |-> JStr("TICKER")])]

\* {tenor: rate, ...}
TenorFields(pairs) ==
    [x \in {pairs[k].tenor : k \in 1..Len(pairs)} |->
        (CHOOSE q \in Range(pairs) : q.tenor = x).rate]

\* f and g together, f's fields and g's fields
Merge(f, g) == [x \in DOMAIN f \cup DOMAIN g |-> IF x \in DOMAIN f THEN f[x] ELSE g[x]]

\* the stored payload of the pairs in one of the three formats
Payload(shape, pairs, meta) ==
    IF shape = "sequence" THEN JList(Records(pairs))
    ELSE IF shape = "nested"
    THEN JDict(Merge([quotes |-> JList(Records(pairs))],
                     IF meta THEN Metadata ELSE EmptyDict))
    ELSE JDict(Merge(TenorFields(pairs), IF meta THEN Metadata ELSE EmptyDict))

InitCurve ==
    /\ gc_index \in Indices
    /\ gc_pairs \in PairLists
    /\ gc_meta \in BOOLEAN
    /\ gc_done = {}
    /\ gc_result = EmptyDict
    /\ ParseIdle
    /\ ScanIdle
    /\ GeneratorIdle
    /\ ExtractIdle

\* get_curve_data on the curve stored in one format
GetCurveData ==
    /\ \E shape \in Shapes \ gc_done :
        /\ gc_done' = gc_done \cup {shape}
        /\ gc_result' =
             DictSet(gc_result, shape,
                     get_curve_data(gc_index,
                        [kind |-> "row",
                         payload |-> Payload(shape, gc_pairs, gc_meta)]))
    /\ UNCHANGED <<gc_index, gc_pairs, gc_meta, po_vars, scan_vars, gen_vars, ra_vars>>

NextCurve == GetCurveData

SpecCurve == InitCurve /\ [][NextCurve]_vars

\* C9 as stated: the sequence, nested and direct formats of the same pairs,
\* rates numeric or null, give the same tenor -> rate mapping (None counting as
\* the empty mapping).
C9_ShapeIndependent ==
    \A a, b \in gc_done : gc_result[a].map = gc_result[b].map

\* C9: when every rate is numeric, the sequence, nested and direct formats of
\* the same pairs give the same tenor -> rate mapping (None counting as the
\* empty mapping).
C9_ShapeIndependentNumeric ==
    (\A k \in 1..Len(gc_pairs) : IsNumber(gc_pairs[k].rate)) =>
        \A a, b \in gc_done : gc_result[a].map = gc_result[b].map

C9_Witness ==
    /\ gc_done = Shapes
    /\ Len(gc_pairs) >= 2
    /\ \A k \in 1..Len(gc_pairs) : IsNumber(gc_pairs[k].rate)
    /\ gc_meta
    /\ \A a \in Shapes :
          /\ ~gc_result[a].none
          /\ gc_result[a].map = gc_result["sequence"].map
    /\ Cardinality(DOMAIN gc_result["direct"].map) = 1

\* C10: a mapping returned by get_curve_data holds no tenor whose rate is null.
C10_NoNullRate ==
    \A a \in gc_done :
        \A k \in DOMAIN gc_result[a].map : gc_result[a].map[k].t # "null"

(***************************************************************************)
(* get_curve_data on whatever the store holds: a connection or query       *)
(* error, no row, or a row whose payload is any JSON value.                *)
(***************************************************************************)
MaxRecords == 2

\* the elements a stored sequence can hold: quotes, and values that are none
RawItems ==
    {JDict([tenor |-> JStr(t), rate |-> r]) : t \in {"1Y", "13M"}, r \in {JNum(18916), JNull}}
        \cup {JStr("junk"),
              JDict([tenor |-> JStr("1Y")]),
              JDict([rate |-> JNum(25000)]),
              JDict([tenor |-> JList(<<JStr("1Y")>>), rate |-> JNum(25000)])}

RawLists == SeqsUpTo(RawItems, MaxRecords)

\* the values a field of a stored structure can hold besides a number
FieldValues == {JNum(18916), JBool(TRUE), JStr("n/a"), JNull}

\* structures without a quotes list: any fields, with or without metadata
RawStructs ==
    {JDict(Merge(f, m)) :
        f \in UNION {[D -> FieldValues] : D \in SUBSET {"1Y", "13M"}},
        m \in {EmptyDict, Metadata}}
        \cup {JDict([quotes |-> JStr("n/a")]), JDict([quotes |-> JNum(25000)])}

\* structures with a quotes list, alone or beside other fields
RawNested ==
    {JDict(Merge([quotes |-> JList(l)], m)) :
        l \in RawLists,
        m \in {EmptyDict, Metadata, [x \in {"6M"} |-> JNum(25000)]}}

RawPayloads ==
    {JList(l) : l \in RawLists} \cup RawNested \cup RawStructs
        \cup {JNull, JNum(0), JNum(7), JStr(""), JStr("text"), JBool(FALSE)}

Fetches ==
    {[kind |-> "error"], [kind |-> "norow"]}
        \cup {[kind |-> "row", payload |-> p] : p \in RawPayloads}

InitNormalise ==
    /\ nq_index \in Indices
    /\ nq_fetched \in Fetches
    /\ nq_pc = "ready"
    /\ nq_result = None
    /\ ParseIdle
    /\ ScanIdle
    /\ CurveIdle
    /\ SortIdle
    /\ FixtureIdle
    /\ ExtractIdle

\* one call of get_curve_data: it returns whatever happens inside it
Normalise ==
    /\ nq_pc = "ready"
    /\ nq_pc' = "returned"
    /\ nq_result' = get_curve_data(nq_index, nq_fetched)
    /\ UNCHANGED <<nq_index, nq_fetched, po_vars, scan_vars, gc_vars, st_vars, fx_vars, ra_vars>>

NextNormalise == Normalise

SpecNormalise == InitNormalise /\ [][NextNormalise]_vars

\* the shape the contract gives a payload, tried in the order sequence, nested,
\* direct
ContractShape(p) ==
    IF p.t = "list" THEN "sequence"
    ELSE IF p.t # "dict" THEN "other"
    ELSE IF "quotes" \in DOMAIN p.fields /\ p.fields["quotes"].t = "list" THEN "nested"
    ELSE IF \A k \in DOMAIN p.fields \ {"source", "curve_date", "curve_type", "reference_index"} :
                p.fields[k].t \in {"num", "bool"}
    THEN "direct"
    ELSE "other"

\* the mapping the contract's shape gives before filtering
ContractQuotes(p) ==
    IF ContractShape(p) = "sequence" THEN QuotesFrom(p.items, 1, EmptyDict)
    ELSE IF ContractShape(p) = "nested" THEN QuotesFrom(p.fields["quotes"].items, 1, EmptyDict)
    ELSE IF ContractShape(p) = "direct"
    THEN Built([k \in DOMAIN p.fields \ {"source", "curve_date", "curve_type", "reference_index"} |->
                    p.fields[k]])
    ELSE Built(EmptyDict)

WellFormed(item) ==
    /\ item.t = "dict"
    /\ "tenor" \in DOMAIN item.fields /\ item.fields["tenor"].t = "str"
    /\ "rate" \in DOMAIN item.fields

\* the records of a sequence-shape or nested-shape payload
RecordsOf(p) ==
    IF ContractShape(p) = "sequence" THEN p.items
    ELSE IF ContractShape(p) = "nested" THEN p.fields["quotes"].items
    ELSE <<>>

Whitelisted(index, tenor) ==
    index \in DOMAIN ALLOWED_TENORS => tenor \in Range(ALLOWED_TENORS[index])

\* C12: get_curve_data always returns, and for a sequence-shape or nested-shape
\* payload every well-formed record whose tenor the whitelist allows is in the
\* returned mapping, whatever malformed records stand beside it.
C12_MalformedRecordSkipped ==
    /\ nq_pc \in {"ready", "returned"}
    /\ (nq_pc = "returned" /\ nq_fetched.kind = "row") =>
          \A k \in 1..Len(RecordsOf(nq_fetched.payload)) :
              LET item == RecordsOf(nq_fetched.payload)[k]
              IN  (WellFormed(item) /\ Whitelisted(nq_index, item.fields["tenor"].s))
                      => item.fields["tenor"].s \in DOMAIN nq_result.map

\* C14: the returned mapping is the normalised mapping restricted to the
\* whitelist of the reference index (no tenor outside the whitelist, none that
\* the input lacks, every kept tenor with its rate), and the normalised mapping
\* itself when the index has no whitelist.
C14_FilterIsRestriction ==
    (nq_pc = "returned" /\ ~nq_result.none) =>
        LET input == QuotesOf(nq_fetched.payload).map
            out == nq_result.map
        IN  IF nq_index \in {"ESTR", "EURIBOR3M", "EURIBOR6M", "TONAR", "TIBOR3M", "TIBOR6M"}
            THEN /\ DOMAIN out = {t \in DOMAIN input : t \in Range(ALLOWED_TENORS[nq_index])}
                 /\ \A t \in DOMAIN out : out[t] = input[t]
            ELSE out = input

C14_Witness ==
    /\ nq_pc = "returned"
    /\ ~nq_result.none
    /\ nq_index = "ESTR"
    /\ DOMAIN QuotesOf(nq_fetched.payload).map = {"1Y", "13M"}
    /\ DOMAIN nq_result.map = {"1Y"}
    /\ nq_result.map["1Y"] = JNum(18916)

(***************************************************************************)
(* sort_tenors (generate_fixtures.py).  A tenor is a string; Spelling      *)
(* gives the characters of the strings the model uses.  The key            *)
(* tenor_to_months returns is held in thirtieths of a month, so that       *)
(* weeks * 7 / 30 is the integer weeks * 7.                                *)
(***************************************************************************)
Spelling ==
    "1W" :> <<"1", "W">> @@ "2W" :> <<"2", "W">>
    @@ "1M" :> <<"1", "M">> @@ "2M" :> <<"2", "M">> @@ "3M" :> <<"3", "M">>
    @@ "6M" :> <<"6", "M">> @@ "12M" :> <<"1", "2", "M">>
    @@ "13M" :> <<"1", "3", "M">> @@ "18M" :> <<"1", "8", "M">>
    @@ "1Y" :> <<"1", "Y">> @@ "2Y" :> <<"2", "Y">> @@ "5Y" :> <<"5", "Y">>
    @@ "10Y" :> <<"1", "0", "Y">> @@ "30Y" :> <<"3", "0", "Y">>
    @@ "1y" :> <<"1", "y">> @@ " 3M " :> <<" ", "3", "M", " ">>
    @@ "" :> <<>> @@ "W" :> <<"W">> @@ "ABCY" :> <<"A", "B", "C", "Y">>
    @@ "5D" :> <<"5", "D">>

Digit ==
    "0" :> 0 @@ "1" :> 1 @@ "2" :> 2 @@ "3" :> 3 @@ "4" :> 4
    @@ "5" :> 5 @@ "6" :> 6 @@ "7" :> 7 @@ "8" :> 8 @@ "9" :> 9

\* str.upper() on the letters in use
UpperChar(c) == IF c = "y" THEN "Y" ELSE IF c = "m" THEN "M" ELSE IF c = "w" THEN "W" ELSE c

Upper(cs) == [k \in 1..Len(cs) |-> UpperChar(cs[k])]

\* str.strip()
RECURSIVE Strip(_)
Strip(cs) ==
    IF cs = <<>> THEN cs
    ELSE IF Head(cs) = " " THEN Strip(Tail(cs))
    ELSE IF cs[Len(cs)] = " " THEN Strip(SubSeq(cs, 1, Len(cs) - 1))
    ELSE cs

\* s.endswith(c)
EndsWith(cs, c) == cs # <<>> /\ cs[Len(cs)] = c

\* s[:-1]
AllButLast(cs) == SubSeq(cs, 1, Len(cs) - 1)

\* float(s) succeeds: s is a run of digits (float("") and float("ABC") raise
\* ValueError)
FloatParses(cs) == cs # <<>> /\ \A k \in 1..Len(cs) : cs[k] \in DOMAIN Digit

\* its value
RECURSIVE FloatValue(_)
FloatValue(cs) ==
    IF cs = <<>> THEN 0 ELSE 10 * FloatValue(AllButLast(cs)) + Digit[cs[Len(cs)]]

\* the key of one suffix: per is the number of thirtieths of a month in the unit
SuffixKey(cs, per) ==
    IF FloatParses(AllButLast(cs))
    THEN [raised |-> FALSE, key |-> FloatValue(AllButLast(cs)) * per]
    ELSE [raised |-> TRUE, key |-> 0]

tenor_to_months(tenor) ==
    With(Strip(Upper(Spelling[tenor])), LAMBDA cs :
        IF EndsWith(cs, "W") THEN SuffixKey(cs, 7)
        ELSE IF EndsWith(cs, "M") THEN SuffixKey(cs, 30)
        ELSE IF EndsWith(cs, "Y") THEN SuffixKey(cs, 360)
        ELSE [raised |-> FALSE, key |-> 0])

\* the bug of a sort that is not stable: x goes before the elements of its key
TenorInsertionPoint_BeforeEqual(s, x, k) ==
    CHOOSE p \in k..(Len(s) + 1) :
        /\ \A j \in k..(p - 1) : tenor_to_months(s[j]).key < tenor_to_months(x).key
        /\ p <= Len(s) => tenor_to_months(s[p]).key >= tenor_to_months(x).key

\* sorted() is stable: x goes behind every element whose key is not greater
\* than its own; the first position from k on whose key is greater
RECURSIVE TenorInsertionPoint(_, _, _)
TenorInsertionPoint(s, x, k) ==
    IF k > Len(s) THEN k
    ELSE IF tenor_to_months(s[k]).key > tenor_to_months(x).key THEN k
    ELSE TenorInsertionPoint(s, x, k + 1)

InsertAscending(s, x) ==
    With(TenorInsertionPoint(s, x, 1),
         LAMBDA p : SubSeq(s, 1, p - 1) \o <<x>> \o SubSeq(s, p, Len(s)))

RECURSIVE SortAscendingFrom(_, _, _)
SortAscendingFrom(tenors, k, acc) ==
    IF k > Len(tenors) THEN acc
    ELSE With(InsertAscending(acc, tenors[k]),
              LAMBDA a : SortAscendingFrom(tenors, k + 1, a))

\* sorted(tenors, key=tenor_to_months): the key of every element is computed,
\* and an exception of the key function leaves sorted()
sort_tenors(tenors) ==
    IF \E k \in 1..Len(tenors) : tenor_to_months(tenors[k]).raised
    THEN [raised |-> TRUE, sorted |-> <<>>]
    ELSE [raised |-> FALSE, sorted |-> SortAscendingFrom(tenors, 1, <<>>)]

MaxTenors == 3

SortInputs == {"1W", "1M", "12M", "1Y", "2Y", "1y", " 3M ", "", "W", "ABCY", "5D"}

ReverseOrdered ==
    <<"30Y", "10Y", "5Y", "2Y", "18M", "1Y", "6M", "3M", "2M", "1M", "2W", "1W">>

InitSort ==
    /\ st_tenors \in SeqsUpTo(SortInputs, MaxTenors) \cup {ReverseOrdered}
    /\ st_pc = "ready"
    /\ st_sorted = <<>>
    /\ ParseIdle
    /\ ScanIdle
    /\ CurveIdle
    /\ NormaliseIdle
    /\ FixtureIdle
    /\ ExtractIdle

SortTenors ==
    /\ st_pc = "ready"
    /\ \E r \in {sort_tenors(st_tenors)} :
          /\ st_pc' = IF r.raised THEN "raised" ELSE "returned"
          /\ st_sorted' = r.sorted
    /\ UNCHANGED <<st_tenors, po_vars, scan_vars, gc_vars, nq_vars, fx_vars, ra_vars>>

NextSort == SortTenors

SpecSort == InitSort /\ [][NextSort]_vars

\* the elements of s whose key is n, in the order s has them
OfKey(s, n) == SelectSeq(s, LAMBDA t : tenor_to_months(t).key = n)

\* C15: the list sort_tenors returns is ordered by non-decreasing key (nW is
\* n*7/30 months, nM is n, nY is n*12), holds for each key exactly the input's
\* tenors of that key in the input's order (so it is a permutation, and stable),
\* and the twelve tenors from 30Y down to 1W come out as 1W up to 30Y.
C15_StableAscendingPermutation ==
    st_pc = "returned" =>
        /\ Len(st_sorted) = Len(st_tenors)
        /\ \A j, k \in 1..Len(st_sorted) :
              j < k => tenor_to_months(st_sorted[j]).key <= tenor_to_months(st_sorted[k]).key
        /\ \A k \in 1..Len(st_tenors) :
              OfKey(st_sorted, tenor_to_months(st_tenors[k]).key)
                  = OfKey(st_tenors, tenor_to_months(st_tenors[k]).key)
        /\ st_tenors = ReverseOrdered =>
              st_sorted = <<"1W", "2W", "1M", "2M", "3M", "6M", "1Y", "18M", "2Y",
                            "5Y", "10Y", "30Y">>
        /\ st_tenors = <<"1Y", "12M", "1M">> => st_sorted = <<"1M", "1Y", "12M">>
        /\ st_tenors = <<"12M", "1Y", "1M">> => st_sorted = <<"1M", "12M", "1Y">>

C15_Witness ==
    /\ st_pc = "returned"
    /\ st_tenors = <<"1Y", "12M", "1M">>
    /\ st_sorted = <<"1M", "1Y", "12M">>

\* a tenor string of the form <n>W, <n>M or <n>Y, n a number
OfTenorForm(t) ==
    t \in {"1W", "2W", "1M", "2M", "3M", "6M", "12M", "13M", "18M", "1Y", "2Y", "5Y",
           "10Y", "30Y", "1y", " 3M "}

\* C16: sort_tenors returns for every list of strings, and in what it returns
\* every string that is not of the form <n>W, <n>M or <n>Y stands before every
\* one that is.
C16_TotalOverStrings ==
    /\ st_pc # "raised"
    /\ st_pc = "returned" =>
          \A j, k \in 1..Len(st_sorted) :
              (OfTenorForm(st_sorted[j]) /\ ~OfTenorForm(st_sorted[k])) => k < j

(***************************************************************************)
(* generate_fixture_for_source, generate_fixture_file and generate_go_map  *)
(* (generate_fixtures.py).  A written file is its name and the declaration *)
(* blocks of its var ( ... ) section; a name is the lower-cased source     *)
(* between "fixtures_" and the suffix of the currency family.              *)
(***************************************************************************)
CURRENCY_INDICES ==
    "EUR" :> [ois |-> "ESTR", ibor_3m |-> "EURIBOR3M", ibor_6m |-> "EURIBOR6M"]
    @@ "JPY" :> [ois |-> "TONAR", ibor_3m |-> "TIBOR3M", ibor_6m |-> "TIBOR6M"]
    @@ "USD" :> [ois |-> "SOFR", ibor_3m |-> "USD_LIBOR_3M", ibor_6m |-> "USD_LIBOR_6M"]
    @@ "GBP" :> [ois |-> "SONIA", ibor_3m |-> "GBP_LIBOR_3M", ibor_6m |-> "GBP_LIBOR_6M"]

Curves == <<"ois", "ibor_3m", "ibor_6m">>

\* str.lower() on the source names in use
Lower == "BGN" :> "bgn" @@ "BGNS" :> "bgns" @@ "LCH" :> "lch"

\* the if / elif chain on currency that picks the file name
FileName(source, currency) ==
    [source |-> Lower[source],
     family |-> IF currency = "EUR" THEN "_euribor.go"
                ELSE IF currency = "JPY" THEN "_tibor.go"
                ELSE IF currency = "USD" THEN "_usd_libor.go"
                ELSE IF currency = "GBP" THEN "_gbp_libor.go"
                ELSE "_other.go"]

\* list(quotes.keys()): the model's dictionaries carry no insertion order; it
\* shows only between tenors of one key, which the stored curves do not hold
RECURSIVE KeyList(_)
KeyList(K) ==
    IF K = {} THEN <<>>
    ELSE With(CHOOSE k \in K : TRUE, LAMBDA k : <<k>> \o KeyList(K \ {k}))

\* the bug of a map that writes a tenor without a rate
HasRate_Always(rate) == TRUE

\* if rate is not None
HasRate(rate) == rate.t # "null"

\* the lines of one map[string]float64{...}: a tenor and a rate each
generate_go_map(var_name, quotes) ==
    With(sort_tenors(KeyList(DOMAIN quotes)), LAMBDA r :
        IF r.raised THEN [raised |-> TRUE, var |-> var_name, entries |-> <<>>]
        ELSE With(SelectSeq(r.sorted, LAMBDA t : HasRate(quotes[t])), LAMBDA kept :
                [raised |-> FALSE, var |-> var_name,
                 entries |-> [k \in 1..Len(kept) |->
                                [tenor |-> kept[k], rate |-> quotes[kept[k]]]]]))

\* if ois_quotes: ... if ibor_3m_quotes: ... if ibor_6m_quotes: ... from curve k
RECURSIVE BlocksFrom(_, _, _, _)
BlocksFrom(var_prefix, quotes, k, blocks) ==
    IF k > Len(Curves) THEN [raised |-> FALSE, blocks |-> blocks]
    ELSE IF DOMAIN quotes[Curves[k]] = {} THEN BlocksFrom(var_prefix, quotes, k + 1, blocks)
    ELSE With(generate_go_map(<<var_prefix, Curves[k]>>, quotes[Curves[k]]), LAMBDA b :
            IF b.raised THEN [raised |-> TRUE, blocks |-> <<>>]
            ELSE BlocksFrom(var_prefix, quotes, k + 1,
                            Append(blocks, [var |-> b.var, entries |-> b.entries])))

\* quotes is ois_quotes, ibor_3m_quotes and ibor_6m_quotes by curve
generate_fixture_file(source, currency, quotes, var_prefix) ==
    With(BlocksFrom(var_prefix, quotes, 1, <<>>), LAMBDA r :
        [raised |-> r.raised,
         file |-> [name |-> FileName(source, currency), blocks |-> r.blocks]])

Sources == {"BGN", "BGNS", "LCH"}

Currencies == {"EUR", "JPY", "USD", "KRW"}

\* what the store holds for one curve
FixturePayloads ==
    {JList(Records(<<[tenor |-> "2Y", rate |-> JNum(25000)],
                     [tenor |-> "1Y", rate |-> JNum(18916)],
                     [tenor |-> "6M", rate |-> JNull]>>)),
     JList(Records(<<[tenor |-> "6M", rate |-> JNull]>>)),
     JList(Records(<<[tenor |-> "W", rate |-> JNum(25000)]>>)),
     JDict([x \in {"3M"} |-> JNum(21000)])}

FixtureFetches ==
    {[kind |-> "error"], [kind |-> "norow"]}
        \cup {[kind |-> "row", payload |-> p] : p \in FixturePayloads}

InitFixture ==
    /\ fx_source \in Sources
    /\ fx_currency \in Currencies
    /\ fx_ois_source \in {""} \cup {"BGN", "BGNS"}
    /\ fx_ibor_source \in {""} \cup {"BGN", "BGNS"}
    /\ fx_pc = "start"
    /\ fx_quotes = EmptyDict
    /\ fx_store = EmptyDict
    /\ fx_written = <<>>
    /\ ParseIdle
    /\ ScanIdle
    /\ CurveIdle
    /\ NormaliseIdle
    /\ SortIdle
    /\ ExtractIdle

\* if ois_source is None: ois_source = source
OisSource == IF fx_ois_source = "" THEN fx_source ELSE fx_ois_source

IborSource == IF fx_ibor_source = "" THEN fx_source ELSE fx_ibor_source

\* if currency not in CURRENCY_INDICES: return
CheckCurrency ==
    /\ fx_pc = "start"
    /\ fx_pc' = IF fx_currency \notin DOMAIN CURRENCY_INDICES THEN "returned" ELSE "ois"
    /\ UNCHANGED <<fx_source, fx_currency, fx_ois_source, fx_ibor_source, fx_quotes,
                   fx_store, fx_written, po_vars, scan_vars, gc_vars, nq_vars, st_vars, ra_vars>>

\* the position after the lookup of a curve
AfterCurve(c) == IF c = "ois" THEN "ibor_3m" ELSE IF c = "ibor_3m" THEN "ibor_6m" ELSE "check"

\* one of the three get_curve_data calls: whatever the store does, the call
\* returns and the next statement runs
Fetch ==
    /\ fx_pc \in Range(Curves)
    /\ \E f \in FixtureFetches :
          /\ fx_quotes' = DictSet(fx_quotes, fx_pc,
                                  get_curve_data(CURRENCY_INDICES[fx_currency][fx_pc], f))
          /\ fx_store' = DictSet(fx_store, fx_pc, f.kind)
    /\ fx_pc' = AfterCurve(fx_pc)
    /\ UNCHANGED <<fx_source, fx_currency, fx_ois_source, fx_ibor_source, fx_written,
                   po_vars, scan_vars, gc_vars, nq_vars, st_vars, ra_vars>>

\* not quotes: None or {}
Falsy(q) == q.none \/ DOMAIN q.map = {}

\* if not ois_quotes and not ibor_3m_quotes and not ibor_6m_quotes: return;
\* otherwise the missing curves become {} and the file is written
WriteFixture ==
    /\ fx_pc = "check"
    /\ IF \A c \in Range(Curves) : Falsy(fx_quotes[c])
       THEN fx_pc' = "returned" /\ UNCHANGED fx_written
       ELSE \E r \in {generate_fixture_file(
                         IF OisSource # IborSource THEN OisSource ELSE fx_source,
                         fx_currency,
                         [c \in Range(Curves) |-> fx_quotes[c].map],
                         IF OisSource # IborSource THEN OisSource ELSE fx_source)} :
              IF r.raised
              THEN fx_pc' = "raised" /\ UNCHANGED fx_written
              ELSE fx_pc' = "returned" /\ fx_written' = Append(fx_written, r.file)
    /\ UNCHANGED <<fx_source, fx_currency, fx_ois_source, fx_ibor_source, fx_quotes,
                   fx_store, po_vars, scan_vars, gc_vars, nq_vars, st_vars, ra_vars>>

NextFixture == CheckCurrency \/ Fetch \/ WriteFixture

SpecFixture == InitFixture /\ [][NextFixture]_vars

\* C13: once a connection to or a query of the store has failed in a curve
\* lookup, the run is aborted: no further curve is looked up, no "no data"
\* return is taken and no file is written.
C13_StoreFailureAborts ==
    (\E c \in DOMAIN fx_store : fx_store[c] = "error") => fx_pc = "aborted"

\* the blocks of a file that declare the variable of curve c
BlocksOf(file, c) == SelectSeq(file.blocks, LAMBDA b : b.var[2] = c)

\* C17: a written file holds exactly one declaration block for each of the
\* three curve mappings that is non-empty and none for an empty one, and the
\* entries of a block are exactly the mapping's tenors that have a rate, each
\* once with its rate, in ascending order of the sort_tenors key.
C17_OneBlockPerNonEmptyCurve ==
    \A n \in 1..Len(fx_written) :
        \A c \in {"ois", "ibor_3m", "ibor_6m"} :
            LET m == fx_quotes[c].map
                bs == BlocksOf(fx_written[n], c)
            IN  /\ Len(bs) = IF DOMAIN m = {} THEN 0 ELSE 1
                /\ \A b \in Range(bs) :
                      /\ {b.entries[k].tenor : k \in 1..Len(b.entries)}
                            = {t \in DOMAIN m : m[t] # JNull}
                      /\ \A k \in 1..Len(b.entries) :
                            b.entries[k].rate = m[b.entries[k].tenor]
                      /\ \A j, k \in 1..Len(b.entries) :
                            j < k => tenor_to_months(b.entries[j].tenor).key
                                       < tenor_to_months(b.entries[k].tenor).key

C17_Witness ==
    /\ Len(fx_written) = 1
    /\ DOMAIN fx_quotes["ois"].map = {"1Y", "2Y", "6M"}
    /\ fx_quotes["ois"].map["6M"] = JNull
    /\ Falsy(fx_quotes["ibor_3m"])
    /\ DOMAIN fx_quotes["ibor_6m"].map = {"6M"}
    /\ Len(fx_written[1].blocks) = 2
    /\ Len(fx_written[1].blocks[1].entries) = 2
    /\ fx_written[1].blocks[1].entries[1].tenor = "1Y"
    /\ fx_written[1].blocks[2].entries = <<>>

\* C18: every file written is named after the source argument and the currency
\* family, whatever ois_source and ibor_source are.
C18_FileNamedAfterSource ==
    \A n \in 1..Len(fx_written) :
        /\ fx_written[n].name.source = Lower[fx_source]
        /\ fx_written[n].name.family =
              (  "EUR" :> "_euribor.go" @@ "JPY" :> "_tibor.go"
              @@ "USD" :> "_usd_libor.go" @@ "GBP" :> "_gbp_libor.go")[fx_currency]

\* the line is one parse_output is to pass over without a DiffIssue: it lacks a
\* computed= or a diff= token, or it holds both and has fewer than three fields,
\* no field beginning with diff=, a value that is no number or, in the pre-2025
\* script, no database= field
Malformed(v, line) ==
    \/ ~Contains(line, "computed")
    \/ ~Contains(line, "diff")
    \/ Len(line) < 3
    \/ Len(Labelled_parts(line, "diff")) = 0
    \/ \E k \in 1..Len(line) : line[k].key # "" /\ ~FloatOk(line[k])
    \/ v = "pre2025" /\ Len(Labelled_parts(line, "database")) = 0

\* C19: parse_output returns for every report, and what it returns is what it
\* returns for the report without its malformed lines: a malformed line gives no
\* DiffIssue and leaves the DiffIssues of the other lines as they are.
C19_MalformedLineIgnored ==
    po_pc \in {"returned", "raised"} =>
        /\ po_pc = "returned"
        /\ po_issues =
             parse_output(po_variant,
                          SelectSeq(po_output, LAMBDA l : ~Malformed(po_variant, l))).issues
        /\ \A n \in 1..Len(po_issues) : ~Malformed(po_variant, po_issues[n].line)

\* a is b or a beginning of b
IsPrefix(a, b) == Len(a) <= Len(b) /\ SubSeq(b, 1, Len(a)) = a

\* C20: in every step of the scan the issue list is extended (what it held stays,
\* in place), dates_tested and dates_skipped do not decrease, the loop moves on
\* by one date and only from the loop head, with every earlier date either
\* refused by the regeneration or given to the engine, and the engine is invoked
\* for the date in process only.
C20_AccumulationOnlyGrows ==
    [][/\ IsPrefix(all_issues, all_issues')
       /\ dates_tested' >= dates_tested
       /\ dates_skipped' >= dates_skipped
       /\ idx' # idx =>
             /\ idx' = idx + 1
             /\ pc = "loop"
             /\ \A k \in 1..idx : dates[k] \in Range(engine_calls) \cup regen_failed
       /\ engine_calls' # engine_calls =>
             /\ engine_calls' = Append(engine_calls, dates[idx])
             /\ idx' = idx
             /\ dates[idx] \notin regen_failed]_vars

C20_Witness ==
    /\ variant = "pre2025"
    /\ pc = "loop"
    /\ idx = 2
    /\ dates_tested = 2
    /\ Len(all_issues) >= 2
    /\ all_issues[1].date_str = format_date_for_script(dates[1])
    /\ all_issues[Len(all_issues)].date_str = format_date_for_script(dates[2])

\* the DiffIssues of a whole report, each with the date it belongs to
IssuesOfReport(v, date, stdout) ==
    With(parse_output(v, stdout).issues, LAMBDA found :
        [k \in 1..Len(found) |->
            [f \in {"date", "date_str"} \cup DOMAIN found[k] |->
                IF f = "date" THEN date
                ELSE IF f = "date_str" THEN format_date_for_script(date)
                ELSE found[k][f]]])

\* C21: a step of the scan leaves the issue list as it is or appends to it, in
\* report order, every DiffIssue of the whole report of the date in process,
\* tagged with that date; it leaves it as it is when the engine timed out, could
\* not be run, exited non-zero, or the parsing of its report raised.
C21_AllOrNothingPerDate ==
    [][/\ pc # "calc" => all_issues' = all_issues
       /\ pc = "calc" =>
             /\ \/ all_issues' = all_issues
                \/ all_issues' =
                      all_issues \o IssuesOfReport(variant, dates[idx], engine_result'.stdout)
             /\ (\/ engine_result'.kind # "exit"
                 \/ engine_result'.returncode # 0
                 \/ parse_output(variant, engine_result'.stdout).raised)
                    => all_issues' = all_issues
             /\ (/\ engine_result'.kind = "exit"
                 /\ engine_result'.returncode = 0
                 /\ ~parse_output(variant, engine_result'.stdout).raised)
                    => all_issues' =
                          all_issues \o IssuesOfReport(variant, dates[idx], engine_result'.stdout)]_vars

\* the second date's report raises after a line that is a DiffIssue: the list
\* holds the first date's two issues and nothing of the second date
C21_Witness ==
    /\ idx = 2
    /\ pc = "loop"
    /\ engine_result.kind = "exit" /\ engine_result.returncode = 0
    /\ Len(engine_result.stdout) = 2
    /\ LineStep(variant, engine_result.stdout[1]).kind = "issue"
    /\ LineStep(variant, engine_result.stdout[2]).kind = "raise"
    /\ Len(all_issues) = 2
    /\ \A n \in 1..2 : all_issues[n].date_str = format_date_for_script(dates[1])

\* C22: when generate_fixture_for_source is over, no file is written if the
\* currency is unsupported or all three lookups gave an empty or absent mapping,
\* and exactly one file is written in every other case, without a block for a
\* curve that is missing.
C22_OneFileUnlessNoData ==
    fx_pc \in {"returned", "raised"} =>
        IF fx_currency \notin {"EUR", "JPY", "USD", "GBP"}
        THEN fx_written = <<>>
        ELSE IF \A c \in {"ois", "ibor_3m", "ibor_6m"} :
                    fx_quotes[c].none \/ fx_quotes[c].map = EmptyDict
        THEN fx_written = <<>>
        ELSE /\ Len(fx_written) = 1
             /\ \A c \in {"ois", "ibor_3m", "ibor_6m"} :
                   (fx_quotes[c].none \/ fx_quotes[c].map = EmptyDict)
                       => BlocksOf(fx_written[1], c) = <<>>

(***************************************************************************)
(* main() of run_all_dates.py.  A line of the script's output is what the  *)
(* loop asks of it: whether it contains the start marker                   *)
(* "=== Running Pricing Tests ===", whether it contains the end marker     *)
(* "=== Complete! ===", and its text (line.strip() of a blank line is "").  *)
(***************************************************************************)
MaxOutputLines == 4

MaxRuns == 2

OutputLine(start, end, text) == [start |-> start, end |-> end, text |-> text]

OutputLines ==
    {OutputLine(TRUE, FALSE, "=== Running Pricing Tests ==="),
     OutputLine(FALSE, TRUE, "=== Complete! ==="),
     OutputLine(TRUE, TRUE, "=== Running Pricing Tests === === Complete! ==="),
     OutputLine(FALSE, FALSE, "BGN 10x10 spread"),
     OutputLine(FALSE, FALSE, "LCH 5x5 spread"),
     OutputLine(FALSE, FALSE, "")}

\* what subprocess.run of basis_swap.sh can do
ScriptResults ==
    {[kind |-> "timeout", returncode |-> 0, stdout |-> <<>>],
     [kind |-> "oserror", returncode |-> 0, stdout |-> <<>>]}
    \cup {[kind |-> "exit", returncode |-> rc, stdout |-> out] :
            rc \in {0, 1}, out \in SeqsUpTo(OutputLines, MaxOutputLines)}

\* the bug of an end marker that is passed over instead of ending the loop
ExtractStep_NoBreak(in_results, line) ==
    IF line.start THEN [in_results |-> TRUE, print |-> FALSE, break |-> FALSE]
    ELSE IF line.end THEN [in_results |-> in_results, print |-> FALSE, break |-> FALSE]
    ELSE [in_results |-> in_results, print |-> in_results /\ line.text # "",
          break |-> FALSE]

\* the body of "for line in lines": the start marker test comes first and
\* continues, the end marker test breaks, a non-blank line in the results is
\* printed
ExtractStep(in_results, line) ==
    IF line.start THEN [in_results |-> TRUE, print |-> FALSE, break |-> FALSE]
    ELSE IF line.end THEN [in_results |-> in_results, print |-> FALSE, break |-> TRUE]
    ELSE [in_results |-> in_results, print |-> in_results /\ line.text # "",
          break |-> FALSE]

InitExtract ==
    /\ ra_total \in 0..MaxRuns
    /\ ra_date = 0
    /\ ra_result = [kind |-> "none", returncode |-> 0, stdout |-> <<>>]
    /\ ra_k = 0
    /\ ra_in_results = FALSE
    /\ ra_printed = <<>>
    /\ ra_warned = FALSE
    /\ ra_pc = "start"
    /\ ParseIdle
    /\ ScanIdle
    /\ CurveIdle
    /\ GeneratorIdle

\* if not dates: sys.exit(1)
NoDatesFound ==
    /\ ra_pc = "start"
    /\ ra_total = 0
    /\ ra_pc' = "exit1"
    /\ UNCHANGED <<ra_total, ra_date, ra_result, ra_k, ra_in_results, ra_printed,
                   ra_warned, po_vars, scan_vars, gc_vars, gen_vars>>

BeginRuns ==
    /\ ra_pc = "start"
    /\ ra_total > 0
    /\ ra_pc' = "next"
    /\ UNCHANGED <<ra_total, ra_date, ra_result, ra_k, ra_in_results, ra_printed,
                   ra_warned, po_vars, scan_vars, gc_vars, gen_vars>>

\* the next date: subprocess.run, then lines = result.stdout.split and
\* in_results = False, or one of the two exception handlers
RunScript ==
    /\ ra_pc = "next"
    /\ ra_date < ra_total
    /\ ra_date' = ra_date + 1
    /\ \E res \in ScriptResults :
          IF res.kind = "exit"
          THEN ra_result' = res /\ ra_pc' = "scan"
          ELSE /\ ra_result' = [kind |-> "none", returncode |-> 0, stdout |-> <<>>]
               /\ ra_pc' = "next"
    /\ ra_k' = 0
    /\ ra_in_results' = FALSE
    /\ ra_printed' = <<>>
    /\ ra_warned' = FALSE
    /\ UNCHANGED <<ra_total, po_vars, scan_vars, gc_vars, gen_vars>>

\* one pass of "for line in lines"
ScanLine ==
    /\ ra_pc = "scan"
    /\ ra_k < Len(ra_result.stdout)
    /\ \E r \in {ExtractStep(ra_in_results, ra_result.stdout[ra_k + 1])} :
          /\ ra_in_results' = r.in_results
          /\ ra_printed' = IF r.print
                           THEN Append(ra_printed, ra_result.stdout[ra_k + 1])
                           ELSE ra_printed
          /\ ra_pc' = IF r.break THEN "after" ELSE "scan"
    /\ ra_k' = ra_k + 1
    /\ UNCHANGED <<ra_total, ra_date, ra_result, ra_warned, po_vars, scan_vars, gc_vars,
                   gen_vars>>

\* the loop has taken every line
EndOfOutput ==
    /\ ra_pc = "scan"
    /\ ra_k = Len(ra_result.stdout)
    /\ ra_pc' = "after"
    /\ UNCHANGED <<ra_total, ra_date, ra_result, ra_k, ra_in_results, ra_printed,
                   ra_warned, po_vars, scan_vars, gc_vars, gen_vars>>

\* if result.returncode != 0: print the warning; the iteration ends here, and
\* result, lines and in_results are not read again before they are set anew
CheckReturnCode ==
    /\ ra_pc = "after"
    /\ ra_warned' = (ra_result.returncode # 0)
    /\ ra_pc' = "next"
    /\ ra_result' = [kind |-> "none", returncode |-> 0, stdout |-> <<>>]
    /\ ra_k' = 0
    /\ ra_in_results' = FALSE
    /\ UNCHANGED <<ra_total, ra_date, ra_printed, po_vars, scan_vars, gc_vars, gen_vars>>

\* the loop is over: "Completed processing ..."
AllRunsDone ==
    /\ ra_pc = "next"
    /\ ra_date = ra_total
    /\ ra_pc' = "done"
    /\ UNCHANGED <<ra_total, ra_date, ra_result, ra_k, ra_in_results, ra_printed,
                   ra_warned, po_vars, scan_vars, gc_vars, gen_vars>>

NextExtract ==
    NoDatesFound \/ BeginRuns \/ RunScript \/ ScanLine \/ EndOfOutput
        \/ CheckReturnCode \/ AllRunsDone

SpecExtract == InitExtract /\ [][NextExtract]_vars

\* the position of the first line that contains the start marker (one past the
\* end when there is none)
FirstStart(lines) ==
    CHOOSE k \in 1..(Len(lines) + 1) :
        /\ k <= Len(lines) => lines[k].start
        /\ \A j \in 1..(k - 1) : ~lines[j].start

\* the position of the first line that contains the end marker
FirstEnd(lines) ==
    CHOOSE k \in 1..(Len(lines) + 1) :
        /\ k <= Len(lines) => lines[k].end
        /\ \A j \in 1..(k - 1) : ~lines[j].end

\* the position of the first line that contains the end marker and not the
\* start marker
FirstEndOnly(lines) ==
    CHOOSE k \in 1..(Len(lines) + 1) :
        /\ k <= Len(lines) => (lines[k].end /\ ~lines[k].start)
        /\ \A j \in 1..(k - 1) : ~(lines[j].end /\ ~lines[j].start)

\* the non-blank lines without a marker that stand after position s and before
\* position e
Between(lines, s, e) ==
    IF e <= s THEN <<>>
    ELSE SelectSeq(SubSeq(lines, s + 1, e - 1),
                   LAMBDA l : l.text # "" /\ ~l.start /\ ~l.end)

\* C23 as stated: once the loop over the output of a date is over, the lines
\* printed are the non-blank lines without a marker after the first line that
\* contains the start marker and before the first line that contains the end
\* marker, and none when the end marker comes first.
C23_PrintsBetweenMarkers ==
    /\ ra_pc \in {"scan", "after"} =>
          IsPrefix(ra_printed,
                   Between(ra_result.stdout, FirstStart(ra_result.stdout),
                           FirstEnd(ra_result.stdout)))
    /\ ra_pc = "after" =>
          ra_printed = Between(ra_result.stdout, FirstStart(ra_result.stdout),
                               FirstEnd(ra_result.stdout))

\* C23: once the loop over the output of a date is over, the lines printed are
\* the non-blank lines without a marker after the first line that contains the
\* start marker and before the first line that contains the end marker and not
\* the start marker, and none when such an end marker line comes first; while
\* the loop runs, the lines printed are a beginning of these.
C23_PrintsBetweenStartAndEndOnly ==
    /\ ra_pc \in {"scan", "after"} =>
          IsPrefix(ra_printed,
                   Between(ra_result.stdout, FirstStart(ra_result.stdout),
                           FirstEndOnly(ra_result.stdout)))
    /\ ra_pc = "after" =>
          ra_printed = Between(ra_result.stdout, FirstStart(ra_result.stdout),
                               FirstEndOnly(ra_result.stdout))

C23_Witness ==
    /\ ra_pc = "after"
    /\ Len(ra_result.stdout) = 4
    /\ ra_result.stdout[1].text = "BGN 10x10 spread"
    /\ ra_result.stdout[2].start /\ ~ra_result.stdout[2].end
    /\ ra_result.stdout[3].text = "LCH 5x5 spread"
    /\ ra_result.stdout[4].end /\ ~ra_result.stdout[4].start
    /\ ra_printed = <<ra_result.stdout[3]>>

====
